---- MODULE Spec2Model ----
(***************************************************************************)
(* A model of the SILS / ISILS route analysis code: the nested accessor    *)
(* safe_get, RouteExtractor, RouteComparer and RoutePlotter.get_safe_path. *)
(*                                                                         *)
(* JSON values (and the Python lists built from them) are tagged records:  *)
(*   [t |-> "null"]                      None / JSON null                  *)
(*   [t |-> "bool", b |-> TRUE]          True / False                      *)
(*   [t |-> "num",  n |-> 3]             a number                          *)
(*   [t |-> "str",  s |-> "ab", len |-> 2]   a string and its length       *)
(*   [t |-> "list", items |-> <<..>>]    a list                            *)
(*   [t |-> "map",  keys |-> <<..>>, vals |-> <<..>>]   a dict             *)
(***************************************************************************)
EXTENDS Integers, Sequences, FiniteSets, TLC

VARIABLES sils_json_data, isils_json_data, self, ret, io, batch

vars == <<sils_json_data, isils_json_data, self, ret, io, batch>>

(***************************************************************************)
(* Bounds of the input families.                                           *)
(***************************************************************************)
MaxEvents == 2
MaxRouteLen == 2
MaxWp == 3
MaxFlagEvents == 3

(***************************************************************************)
(* JSON values.                                                            *)
(***************************************************************************)
Null == [t |-> "null"]
Bool(b) == [t |-> "bool", b |-> b]
Num(n) == [t |-> "num", n |-> n]
Str(s, n) == [t |-> "str", s |-> s, len |-> n]
List(s) == [t |-> "list", items |-> s]
Map(ks, vs) == [t |-> "map", keys |-> ks, vals |-> vs]

EmptyList == List(<<>>)
EmptyMap == Map(<<>>, <<>>)

IsList(x) == x.t = "list"
IsDict(x) == x.t = "map"

\* Python truthiness of a value: bool(x).
Truthy(x) ==
  CASE x.t = "null" -> FALSE
    [] x.t = "bool" -> x.b
    [] x.t = "num" -> x.n # 0
    [] x.t = "str" -> x.len # 0
    [] x.t = "list" -> x.items # <<>>
    [] x.t = "map" -> x.keys # <<>>

\* len(x) is defined on lists, dicts and strings, and raises TypeError on
\* None, booleans and numbers.
HasLen(x) == x.t \in {"list", "map", "str"}
PyLen(x) ==
  IF x.t = "list" THEN Len(x.items) ELSE IF x.t = "str" THEN x.len ELSE Len(x.keys)

HasKey(d, key) == \E i \in 1..Len(d.keys) : d.keys[i] = key

\* dict.get(key, default)
DictGet(d, key, default) ==
  IF HasKey(d, key)
    THEN d.vals[CHOOSE i \in 1..Len(d.keys) : d.keys[i] = key]
    ELSE default

\* A bool counts as the number 0 or 1 (math.radians, ==).
IsNumber(x) == x.t \in {"num", "bool"}
NumOf(x) == IF x.t = "bool" THEN (IF x.b THEN 1 ELSE 0) ELSE x.n

\* a == b in Python: numbers and booleans by value, lists item by item,
\* dicts key by key whatever the order of the keys.
RECURSIVE PyEq(_, _)
PyEq(a, b) ==
  CASE IsNumber(a) /\ IsNumber(b) -> NumOf(a) = NumOf(b)
    [] a.t = "list" /\ b.t = "list" ->
         /\ Len(a.items) = Len(b.items)
         /\ \A i \in 1..Len(a.items) : PyEq(a.items[i], b.items[i])
    [] a.t = "map" /\ b.t = "map" ->
         /\ Len(a.keys) = Len(b.keys)
         /\ \A i \in 1..Len(a.keys) :
              HasKey(b, a.keys[i]) /\ PyEq(a.vals[i], DictGet(b, a.keys[i], Null))
    [] a.t = "str" /\ b.t = "str" -> a.s = b.s
    [] a.t = "null" /\ b.t = "null" -> TRUE
    [] OTHER -> FALSE

\* x[key]: the value, or the exception the subscript raises.
Subscript(x, key) ==
  CASE x.t = "map" /\ HasKey(x, key) -> [exc |-> "none", v |-> DictGet(x, key, Null)]
    [] x.t = "map" /\ ~HasKey(x, key) -> [exc |-> "KeyError", v |-> Null]
    [] OTHER -> [exc |-> "TypeError", v |-> Null]

(***************************************************************************)
(* route_extracter.py                                                      *)
(***************************************************************************)
RECURSIVE safe_get(_, _, _)
safe_get(data, keys, default) ==
  IF keys = <<>> THEN data
  ELSE IF IsDict(data)
    THEN LET d == DictGet(data, Head(keys), default)
         IN IF PyEq(d, default) THEN default ELSE safe_get(d, Tail(keys), default)
    ELSE default

\* flatten without the recursive call on the items.
flattenShallow(item) ==
  IF IsList(item) THEN item ELSE List(<<item>>)

RECURSIVE flatten(_)
RECURSIVE flattenItems(_)
flattenItems(s) ==
  IF s = <<>> THEN <<>> ELSE flatten(Head(s)).items \o flattenItems(Tail(s))

flatten(item) ==
  IF IsList(item) THEN List(flattenItems(item.items)) ELSE List(<<item>>)

\* The loop body of extract_safe_path_at_event over the events still to visit.
RECURSIVE SafePathLoop(_)
SafePathLoop(events) ==
  IF events = <<>> THEN <<>>
  ELSE LET route == safe_get(Head(events), <<"safe_path_info", "route">>, Null)
       IN (IF route # Null THEN <<route>> ELSE <<>>) \o SafePathLoop(Tail(events))

extract_safe_path_at_event(data) ==
  LET event_data == safe_get(data, <<"cagaData", "eventData">>, EmptyList)
  IN IF IsList(event_data) THEN List(SafePathLoop(event_data.items)) ELSE EmptyList

\* The loop of extract_target_ships_event_info without the call of flatten.
RECURSIVE TargetShipsLoopNoFlatten(_)
TargetShipsLoopNoFlatten(events) ==
  IF events = <<>> THEN <<>>
  ELSE LET tships == safe_get(Head(events), <<"timeSeriesData", "targetShips">>, EmptyList)
           aslist == IF ~IsList(tships) THEN List(<<tships>>) ELSE tships
       IN <<aslist>> \o TargetShipsLoopNoFlatten(Tail(events))

RECURSIVE TargetShipsLoop(_)
TargetShipsLoop(events) ==
  IF events = <<>> THEN <<>>
  ELSE LET tships == safe_get(Head(events), <<"timeSeriesData", "targetShips">>, EmptyList)
           aslist == IF ~IsList(tships) THEN List(<<tships>>) ELSE tships
       IN <<flatten(aslist)>> \o TargetShipsLoop(Tail(events))

extract_target_ships_event_info(data) ==
  LET event_data == safe_get(data, <<"cagaData", "eventData">>, EmptyList)
  IN IF IsList(event_data) THEN List(TargetShipsLoop(event_data.items)) ELSE EmptyList

extract_base_route(data) ==
  safe_get(data, <<"trafficSituation", "ownShip", "waypoints">>, EmptyList)

RECURSIVE OwnShipLoop(_)
OwnShipLoop(events) ==
  IF events = <<>> THEN <<>>
  ELSE LET own_ship == safe_get(Head(events), <<"timeSeriesData", "ownShip">>, Null)
       IN (IF own_ship # Null THEN <<own_ship>> ELSE <<>>) \o OwnShipLoop(Tail(events))

extract_own_ship_event_info(data) ==
  LET event_data == safe_get(data, <<"cagaData", "eventData">>, EmptyList)
  IN IF IsList(event_data) THEN List(OwnShipLoop(event_data.items)) ELSE EmptyList

extract_own_ship_static_info(data) ==
  safe_get(data, <<"trafficSituation", "ownShip", "static">>, EmptyMap)

extract_event_data(data) ==
  safe_get(data, <<"cagaData", "eventData">>, EmptyList)

\* The loop of extract_extract_evaluate_data: an event contributes to both
\* lists only when both of its flags are not None.
RECURSIVE EvaluateLoop(_)
EvaluateLoop(events) ==
  IF events = <<>> THEN [path_gens |-> <<>>, near_targets |-> <<>>]
  ELSE LET path_gen == safe_get(Head(events), <<"caPathGenFail">>, Null)
           near_target == safe_get(Head(events), <<"isNearTarget">>, Null)
           rest == EvaluateLoop(Tail(events))
       IN IF path_gen # Null /\ near_target # Null
            THEN [path_gens |-> <<path_gen>> \o rest.path_gens,
                  near_targets |-> <<near_target>> \o rest.near_targets]
            ELSE rest

extract_extract_evaluate_data(data) ==
  LET event_data == safe_get(data, <<"cagaData", "eventData">>, EmptyList)
      lists == IF IsList(event_data) THEN EvaluateLoop(event_data.items)
               ELSE [path_gens |-> <<>>, near_targets |-> <<>>]
  IN [path_gens |-> List(lists.path_gens), near_targets |-> List(lists.near_targets)]

\* The attributes RouteExtractor.__init__ sets on the new object.
RouteExtractorInit(sils, isils) ==
  [constructed |-> TRUE,
   base_route |-> extract_base_route(sils),
   sils_safe_paths |-> extract_safe_path_at_event(sils),
   isils_safe_paths |-> extract_safe_path_at_event(isils),
   sils_target_ships_event_info |-> extract_target_ships_event_info(sils),
   isils_target_ships_event_info |-> extract_target_ships_event_info(isils),
   sils_own_ship_event_info |-> extract_own_ship_event_info(sils),
   isils_own_ship_event_info |-> extract_own_ship_event_info(isils),
   sils_own_ship_info |-> extract_own_ship_static_info(sils),
   isils_own_ship_info |-> extract_own_ship_static_info(isils),
   sils_event_data |-> extract_event_data(sils),
   is_path_gen_fail_sils |-> extract_extract_evaluate_data(sils).path_gens,
   is_near_target_sils |-> extract_extract_evaluate_data(sils).near_targets,
   isils_event_data |-> extract_event_data(isils),
   is_path_gen_fail_isils |-> extract_extract_evaluate_data(isils).path_gens,
   is_near_target_isils |-> extract_extract_evaluate_data(isils).near_targets]

(***************************************************************************)
(* route_result_analyzer.py                                                *)
(***************************************************************************)
\* x[j] for an integer j >= 0.
ListIndex(x, j) ==
  CASE x.t = "list" /\ j < Len(x.items) -> [exc |-> "none", v |-> x.items[j + 1]]
    [] x.t = "list" /\ j >= Len(x.items) -> [exc |-> "IndexError", v |-> Null]
    [] x.t = "map" -> [exc |-> "KeyError", v |-> Null]
    [] OTHER -> [exc |-> "TypeError", v |-> Null]

\* r[key] where r is the outcome of an earlier subscript.
Then(r, key) == IF r.exc # "none" THEN r ELSE Subscript(r.v, key)

\* RouteComparer.haversine in metres, rounded to the metre, at the whole
\* degrees 0 and 1 of latitude and longitude (R = 6371000):
\*   one degree of latitude, or of longitude on the equator   111194.93
\*   one degree of longitude at latitude 1                    111177.99
\*   one degree of both                                       157249.38
haversineSum(lat1, lon1, lat2, lon2) ==
  IF lat1 + lat2 = 0 /\ lon1 + lon2 = 0 THEN 0
  ELSE IF lon1 + lon2 = 0 THEN 111195
  ELSE IF lat1 + lat2 = 0 THEN 111195
  ELSE 157249

haversine(lat1, lon1, lat2, lon2) ==
  IF lat1 = lat2 /\ lon1 = lon2 THEN 0
  ELSE IF lon1 = lon2 THEN 111195
  ELSE IF lat1 = lat2 THEN (IF lat1 = 0 THEN 111195 ELSE 111178)
  ELSE 157249

\* Lines 46-50: the four coordinate reads in order, then haversine, which
\* raises TypeError (math.radians) on a coordinate that is not a number.
PairDistance(route_sils, route_isils, j) ==
  LET lat1 == Then(Then(ListIndex(route_sils, j), "position"), "latitude")
      lon1 == Then(Then(ListIndex(route_sils, j), "position"), "longitude")
      lat2 == Then(Then(ListIndex(route_isils, j), "position"), "latitude")
      lon2 == Then(Then(ListIndex(route_isils, j), "position"), "longitude")
  IN CASE lat1.exc # "none" -> [exc |-> lat1.exc, d |-> 0]
       [] lat1.exc = "none" /\ lon1.exc # "none" -> [exc |-> lon1.exc, d |-> 0]
       [] lat1.exc = "none" /\ lon1.exc = "none" /\ lat2.exc # "none" ->
            [exc |-> lat2.exc, d |-> 0]
       [] lat1.exc = "none" /\ lon1.exc = "none" /\ lat2.exc = "none" /\ lon2.exc # "none" ->
            [exc |-> lon2.exc, d |-> 0]
       [] OTHER ->
            IF IsNumber(lat1.v) /\ IsNumber(lon1.v) /\ IsNumber(lat2.v) /\ IsNumber(lon2.v)
              THEN [exc |-> "none",
                    d |-> haversine(NumOf(lat1.v), NumOf(lon1.v), NumOf(lat2.v), NumOf(lon2.v))]
              ELSE [exc |-> "TypeError", d |-> 0]

\* if d > max_error: max_error = d
MaxUpdateLast(d, max_error) == d

MaxUpdate(d, max_error) == IF d > max_error THEN d ELSE max_error

\* The inner loop, for j in range(n), from position j with the sums so far.
RECURSIVE WaypointLoop(_, _, _, _, _, _)
WaypointLoop(route_sils, route_isils, j, n, error_sum, max_error) ==
  IF j >= n THEN [exc |-> "none", error_sum |-> error_sum, max_error |-> max_error]
  ELSE LET pd == PairDistance(route_sils, route_isils, j)
       IN IF pd.exc # "none"
            THEN [exc |-> pd.exc, error_sum |-> error_sum, max_error |-> max_error]
            ELSE WaypointLoop(route_sils, route_isils, j + 1, n, error_sum + pd.d,
                              MaxUpdate(pd.d, max_error))

Min(a, b) == IF a < b THEN a ELSE b

NumRoutesSils(obj) == PyLen(obj.sils_safe_paths)

\* num_routes = min(len(self.sils_safe_paths), len(self.isils_safe_paths))
NumRoutes(obj) == Min(PyLen(obj.sils_safe_paths), PyLen(obj.isils_safe_paths))

\* n = min(len(route_sils), len(route_isils))
NumWaypoints(route_sils, route_isils) == Min(PyLen(route_sils), PyLen(route_isils))

\* The outer loop reporting the compared count n as both waypoint counts.
RECURSIVE RouteLoopComparedCount(_, _, _, _)
RouteLoopComparedCount(obj, i, num_routes, results) ==
  IF i >= num_routes THEN [exc |-> "none", value |-> results]
  ELSE LET rs == ListIndex(obj.sils_safe_paths, i)
           ri == ListIndex(obj.isils_safe_paths, i)
       IN IF rs.exc # "none" THEN [exc |-> rs.exc, value |-> <<>>]
          ELSE IF ri.exc # "none" THEN [exc |-> ri.exc, value |-> <<>>]
          ELSE IF ~HasLen(rs.v) \/ ~HasLen(ri.v) THEN [exc |-> "TypeError", value |-> <<>>]
          ELSE LET inner == WaypointLoop(rs.v, ri.v, 0, NumWaypoints(rs.v, ri.v), 0, 0)
               IN IF inner.exc # "none" THEN [exc |-> inner.exc, value |-> <<>>]
                  ELSE RouteLoopComparedCount(obj, i + 1, num_routes,
                         Append(results,
                           [route_index |-> i,
                            waypoint_count_sils |-> NumWaypoints(rs.v, ri.v),
                            waypoint_count_isils |-> NumWaypoints(rs.v, ri.v),
                            max_error_m |-> inner.max_error,
                            sum_error_m |-> inner.error_sum]))

\* The outer loop, for i in range(num_routes), from index i with the results so far.
RECURSIVE RouteLoop(_, _, _, _)
RouteLoop(obj, i, num_routes, results) ==
  IF i >= num_routes THEN [exc |-> "none", value |-> results]
  ELSE LET rs == ListIndex(obj.sils_safe_paths, i)
           ri == ListIndex(obj.isils_safe_paths, i)
       IN IF rs.exc # "none" THEN [exc |-> rs.exc, value |-> <<>>]
          ELSE IF ri.exc # "none" THEN [exc |-> ri.exc, value |-> <<>>]
          ELSE IF ~HasLen(rs.v) \/ ~HasLen(ri.v) THEN [exc |-> "TypeError", value |-> <<>>]
          ELSE LET inner == WaypointLoop(rs.v, ri.v, 0, NumWaypoints(rs.v, ri.v), 0, 0)
               IN IF inner.exc # "none" THEN [exc |-> inner.exc, value |-> <<>>]
                  ELSE RouteLoop(obj, i + 1, num_routes,
                         Append(results,
                           [route_index |-> i,
                            waypoint_count_sils |-> PyLen(rs.v),
                            waypoint_count_isils |-> PyLen(ri.v),
                            max_error_m |-> inner.max_error,
                            sum_error_m |-> inner.error_sum]))

compare_routes(obj) == RouteLoop(obj, 0, NumRoutes(obj), <<>>)

\* Reading self.<name>: AttributeError when __init__ never set it.
HasAttr(obj, name) == name \in DOMAIN obj

compare_ownship(obj) ==
  IF ~HasAttr(obj, "sils_ship_position") THEN [exc |-> "AttributeError", value |-> Null]
  ELSE IF ~Truthy(obj.sils_ship_position) THEN [exc |-> "none", value |-> Null]
  ELSE IF ~HasAttr(obj, "isils_ship_position") THEN [exc |-> "AttributeError", value |-> Null]
  ELSE IF ~Truthy(obj.isils_ship_position) THEN [exc |-> "none", value |-> Null]
  ELSE LET lat1 == Subscript(obj.sils_ship_position, "latitude")
           lon1 == Subscript(obj.sils_ship_position, "longitude")
           lat2 == Subscript(obj.isils_ship_position, "latitude")
           lon2 == Subscript(obj.isils_ship_position, "longitude")
           bad == SelectSeq(<<lat1, lon1, lat2, lon2>>, LAMBDA r : r.exc # "none")
       IN IF bad # <<>> THEN [exc |-> Head(bad).exc, value |-> Null]
          ELSE IF IsNumber(lat1.v) /\ IsNumber(lon1.v) /\ IsNumber(lat2.v) /\ IsNumber(lon2.v)
            THEN [exc |-> "none",
                  value |-> Num(haversine(NumOf(lat1.v), NumOf(lon1.v),
                                          NumOf(lat2.v), NumOf(lon2.v)))]
            ELSE [exc |-> "TypeError", value |-> Null]

(***************************************************************************)
(* route_plotter.py                                                        *)
(***************************************************************************)
RECURSIVE get_safe_path_above0(_, _)
get_safe_path_above0(safe_paths, idx) ==
  IF idx > 0
    THEN IF idx < PyLen(safe_paths) /\ Truthy(safe_paths.items[idx + 1])
           THEN safe_paths.items[idx + 1]
           ELSE get_safe_path_above0(safe_paths, idx - 1)
    ELSE Null

RECURSIVE get_safe_path(_, _)
get_safe_path(safe_paths, idx) ==
  IF idx >= 0
    THEN IF idx < PyLen(safe_paths) /\ Truthy(safe_paths.items[idx + 1])
           THEN safe_paths.items[idx + 1]
           ELSE get_safe_path(safe_paths, idx - 1)
    ELSE Null

\* The first exception of get_route_coordinates(route), "none" when it
\* returns: the latitudes of all points are read before the longitudes.
\* Iterating a dict or a string yields strings, which have no ["position"].
get_route_coordinates(route) ==
  CASE route.t = "list" ->
         LET n == Len(route.items)
             reads == [k \in 1..(2 * n) |->
                         IF k <= n
                           THEN Then(Subscript(route.items[k], "position"), "latitude").exc
                           ELSE Then(Subscript(route.items[k - n], "position"), "longitude").exc]
             bad == SelectSeq(reads, LAMBDA x : x # "none")
         IN IF bad = <<>> THEN "none" ELSE Head(bad)
    [] route.t \in {"map", "str"} -> IF PyLen(route) = 0 THEN "none" ELSE "TypeError"
    [] OTHER -> "TypeError"

\* One iteration of plot_all's loop: the safe paths it draws (Null when it
\* draws none) and the exception it raises, if any. Only the reads of the two
\* safe paths and of the base route can raise; the own ships and the target
\* ships are drawn inside try/except or behind type tests.
PlotEvent(obj, option, idx) ==
  LET route_isils == IF option \in {"both", "isils"} /\ idx < PyLen(obj.isils_safe_paths)
                       THEN get_safe_path(obj.isils_safe_paths, idx) ELSE Null
      route_sils == IF option \in {"both", "sils"}
                      THEN get_safe_path(obj.sils_safe_paths, idx) ELSE Null
      isils_exc == IF Truthy(route_isils) THEN get_route_coordinates(route_isils) ELSE "none"
      sils_exc == IF Truthy(route_sils) THEN get_route_coordinates(route_sils) ELSE "none"
      base_exc == IF Truthy(obj.base_route)
                    THEN get_route_coordinates(obj.base_route) ELSE "none"
  IN [exc |-> IF isils_exc # "none" THEN isils_exc
              ELSE IF sils_exc # "none" THEN sils_exc
              ELSE base_exc,
      isils |-> IF Truthy(route_isils) THEN route_isils ELSE Null,
      sils |-> IF Truthy(route_sils) THEN route_sils ELSE Null]

\* for idx in range(num_events): the figures saved, with the safe paths drawn
\* on each, until an iteration raises.
RECURSIVE PlotLoop(_, _, _, _, _)
PlotLoop(obj, option, idx, num_events, drawn) ==
  IF idx >= num_events THEN [exc |-> "none", saved |-> idx, drawn |-> drawn]
  ELSE LET ev == PlotEvent(obj, option, idx)
       IN IF ev.exc # "none" THEN [exc |-> ev.exc, saved |-> idx, drawn |-> drawn]
          ELSE PlotLoop(obj, option, idx + 1, num_events,
                        Append(drawn, [sils |-> ev.sils, isils |-> ev.isils]))

\* len(event_data) if event_data is not None else 0
EventCount(event_data) ==
  IF event_data = Null THEN [exc |-> "none", n |-> 0]
  ELSE IF HasLen(event_data) THEN [exc |-> "none", n |-> PyLen(event_data)]
  ELSE [exc |-> "TypeError", n |-> 0]

plot_all(obj, option) ==
  LET sils_event_count == EventCount(obj.sils_event_data)
      isils_event_count == EventCount(obj.isils_event_data)
      num_events == IF sils_event_count.n > isils_event_count.n
                      THEN sils_event_count.n ELSE isils_event_count.n
      none == [sils_event_count |-> 0, isils_event_count |-> 0, num_events |-> 0,
               saved |-> 0, drawn |-> <<>>]
  IN IF sils_event_count.exc # "none" THEN [exc |-> sils_event_count.exc] @@ none
     ELSE IF isils_event_count.exc # "none"
       THEN [exc |-> isils_event_count.exc, sils_event_count |-> sils_event_count.n] @@ none
     ELSE [sils_event_count |-> sils_event_count.n,
           isils_event_count |-> isils_event_count.n,
           num_events |-> num_events]
          @@ PlotLoop(obj, option, 0, num_events, <<>>)

(***************************************************************************)
(* The outcome classifier of spec section 4.4, steps 2 to 4, over the flag *)
(* list the extractor built (step 1).                                      *)
(***************************************************************************)
classify(path_gens) ==
  LET flags == path_gens.items
  IN IF Len(flags) = 0 THEN "NA"
     ELSE IF Len(flags) = 1 THEN (IF Truthy(flags[1]) THEN "NA" ELSE "Success")
     ELSE IF \A i \in 1..Len(flags) : ~Truthy(flags[i]) THEN "Success"
     ELSE "Fail"

(***************************************************************************)
(* Input documents.                                                        *)
(***************************************************************************)
SeqUpTo(S, n) == UNION {[1..k -> S] : k \in 0..n}

\* A dict from a sequence of <<key, value>> pairs.
Obj(pairs) ==
  Map([i \in 1..Len(pairs) |-> pairs[i][1]], [i \in 1..Len(pairs) |-> pairs[i][2]])

\* A key that a document may leave out.
Absent == [t |-> "absent"]
Opt(key, v) == IF v = Absent THEN <<>> ELSE << <<key, v>> >>

Waypoint(p) ==
  Obj(<< <<"position", Obj(<< <<"latitude", Num(p[1])>>, <<"longitude", Num(p[2])>> >>)>> >>)

Route(points) == List([i \in 1..Len(points) |-> Waypoint(points[i])])

ShipState(p) ==
  Obj(<< <<"position", Obj(<< <<"latitude", Num(p[1])>>, <<"longitude", Num(p[2])>> >>)>>,
         <<"heading", Num(0)>> >>)

Event(route, own, tgt, pg, nt) ==
  Obj(  (IF route = Absent THEN <<>>
         ELSE << <<"safe_path_info", Obj(<< <<"route", route>> >>)>> >>)
     \o (IF own = Absent /\ tgt = Absent THEN <<>>
         ELSE << <<"timeSeriesData", Obj(Opt("ownShip", own) \o Opt("targetShips", tgt))>> >>)
     \o Opt("caPathGenFail", pg)
     \o Opt("isNearTarget", nt))

Doc(events) ==
  Obj(<< <<"cagaData", Obj(<< <<"eventData", List(events)>> >>)>> >>)

P0 == <<0, 0>>
P1 == <<1, 0>>
P2 == <<1, 1>>

Flag == {Null, Bool(TRUE), Bool(FALSE)}

\* Events that differ in the presence and the length of their safe route.
AlignRoutes == {Absent} \cup {Route([i \in 1..k |-> P0]) : k \in 0..MaxRouteLen}
AlignEvents == {Event(r, Absent, Absent, Absent, Absent) : r \in AlignRoutes}
AlignDocs == {Doc(es) : es \in SeqUpTo(AlignEvents, MaxEvents)}

\* One event whose safe route runs over three distinct points.
ErrDocs(points) ==
  {Doc(<<Event(Route(ps), Absent, Absent, Absent, Absent)>>) : ps \in SeqUpTo(points, MaxWp)}

\* Events that differ in their two flags.
FlagEvents == {Event(Absent, Absent, Absent, pg, nt) : pg \in Flag, nt \in Flag}
FlagDocs == {Doc(es) : es \in SeqUpTo(FlagEvents, MaxFlagEvents)}

\* Events that differ in the own-ship snapshot and the target ships.
TargetValues ==
  {Absent, Null, ShipState(P1), List(<<ShipState(P1), ShipState(P2)>>),
   List(<<List(<<ShipState(P1)>>), ShipState(P2)>>)}
ShipEvents ==
  {Event(r, own, tgt, Absent, Absent) :
     r \in {Route(<<P0>>)}, own \in {Absent, ShipState(P0)}, tgt \in TargetValues}
ShipDocs == {Doc(es) : es \in SeqUpTo(ShipEvents, MaxEvents)}

\* Events whose safe route is not a list, or holds a waypoint without a position.
BadRoutes == {Num(7), Route(<<>>), Route(<<P0>>), List(<<EmptyMap>>)}
BadEvents == {Event(r, Absent, Absent, Absent, Absent) : r \in BadRoutes}
BadDocs == {Doc(es) : es \in SeqUpTo(BadEvents, MaxEvents)}

NoObject == [constructed |-> FALSE]
NoCall == [op |-> "none"]
\* No batch driver is running.
NoBatch == [driver |-> "none", files |-> <<>>, outcomes |-> <<>>, state |-> "idle"]

\* No file behind the documents: they were handed to the constructor.
NoIo == [is_zip |-> FALSE, members |-> <<>>, json |-> Null, readable |-> FALSE,
         scratch |-> FALSE]

Init ==
  /\ \/ sils_json_data \in AlignDocs /\ isils_json_data \in AlignDocs
     \/ sils_json_data \in ErrDocs({P0, P1, P2}) /\ isils_json_data \in ErrDocs({P0, P1})
     \/ sils_json_data \in FlagDocs /\ isils_json_data = sils_json_data
     \/ sils_json_data \in ShipDocs /\ isils_json_data = sils_json_data
     \/ sils_json_data \in BadDocs /\ isils_json_data \in BadDocs
  /\ self = NoObject
  /\ ret = NoCall
  /\ io = NoIo
  /\ batch = NoBatch

(***************************************************************************)
(* Operations.                                                             *)
(***************************************************************************)
\* RouteComparer(sils_json_data, isils_json_data) / RoutePlotter(...): both
\* constructors only call RouteExtractor.__init__. No method changes the
\* object afterwards, so a behaviour is one construction and one call.
Construct ==
  /\ ~self.constructed
  /\ self' = RouteExtractorInit(sils_json_data, isils_json_data)
  /\ UNCHANGED <<sils_json_data, isils_json_data, ret, io, batch>>

SafePathsOf(which) == IF which = "sils" THEN self.sils_safe_paths ELSE self.isils_safe_paths

PathGensOf(which) ==
  IF which = "sils" THEN self.is_path_gen_fail_sils ELSE self.is_path_gen_fail_isils

CompareRoutes ==
  /\ self.constructed
  /\ ret = NoCall
  /\ ret' = [op |-> "compare_routes"] @@ compare_routes(self)
  /\ UNCHANGED <<sils_json_data, isils_json_data, self, io, batch>>

CompareOwnship ==
  /\ self.constructed
  /\ ret = NoCall
  /\ ret' = [op |-> "compare_ownship"] @@ compare_ownship(self)
  /\ UNCHANGED <<sils_json_data, isils_json_data, self, io, batch>>

GetSafePath ==
  /\ self.constructed
  /\ ret = NoCall
  /\ \E which \in {"sils", "isils"}, idx \in -1..(MaxEvents + 1) :
       ret' = [op |-> "get_safe_path", which |-> which, idx |-> idx,
               value |-> get_safe_path(SafePathsOf(which), idx)]
  /\ UNCHANGED <<sils_json_data, isils_json_data, self, io, batch>>

Classify ==
  /\ self.constructed
  /\ ret = NoCall
  /\ \E which \in {"sils", "isils"} :
       ret' = [op |-> "classify", which |-> which, value |-> classify(PathGensOf(which))]
  /\ UNCHANGED <<sils_json_data, isils_json_data, self, io, batch>>

\* RoutePlotter.plot_all(output_path_pattern, option)
PlotAll ==
  /\ self.constructed
  /\ ret = NoCall
  /\ \E option \in {"both", "sils", "isils"} :
       ret' = [op |-> "plot_all", option |-> option] @@ plot_all(self, option)
  /\ UNCHANGED <<sils_json_data, isils_json_data, self, io, batch>>

Next ==
  \/ Construct
  \/ CompareRoutes
  \/ CompareOwnship
  \/ GetSafePath
  \/ Classify
  \/ PlotAll

Spec == Init /\ [][Next]_vars

(***************************************************************************)
(* What the claims are stated over: the events of the input documents,     *)
(* read directly from the documents.                                       *)
(***************************************************************************)
DocOf(which) == IF which = "sils" THEN sils_json_data ELSE isils_json_data

EventsOf(doc) == DictGet(DictGet(doc, "cagaData", Null), "eventData", Null).items

\* The value an event stores under a two-key path, Null when a key is missing.
Field2(event, k1, k2) ==
  IF HasKey(event, k1) /\ HasKey(DictGet(event, k1, Null), k2)
    THEN DictGet(DictGet(event, k1, Null), k2, Null)
    ELSE Null

RouteOfEvent(event) == Field2(event, "safe_path_info", "route")
OwnShipOfEvent(event) == Field2(event, "timeSeriesData", "ownShip")

OwnShipsOf(which) ==
  IF which = "sils" THEN self.sils_own_ship_event_info ELSE self.isils_own_ship_event_info

TargetShipsOf(which) ==
  IF which = "sils" THEN self.sils_target_ships_event_info
  ELSE self.isils_target_ships_event_info

\* The non-null caPathGenFail values of the events, in event order.
NonNullFlags(events) ==
  SelectSeq([i \in 1..Len(events) |-> DictGet(events[i], "caPathGenFail", Null)],
            LAMBDA f : f # Null)

Range(s) == {s[i] : i \in 1..Len(s)}

SeqMax(s) == IF s = <<>> THEN 0 ELSE CHOOSE x \in Range(s) : \A y \in Range(s) : y <= x

RECURSIVE SeqSum(_)
SeqSum(s) == IF s = <<>> THEN 0 ELSE Head(s) + SeqSum(Tail(s))

Lat(wp) == DictGet(DictGet(wp, "position", Null), "latitude", Null).n
Lon(wp) == DictGet(DictGet(wp, "position", Null), "longitude", Null).n

\* The distances between the waypoints at the same position of two routes,
\* over the positions both routes have.
PairDistances(rs, ri) ==
  [j \in 1..Min(Len(rs.items), Len(ri.items)) |->
     haversine(Lat(rs.items[j]), Lon(rs.items[j]), Lat(ri.items[j]), Lon(ri.items[j]))]

WellFormedWaypoint(wp) ==
  /\ IsDict(wp) /\ HasKey(wp, "position")
  /\ LET pos == DictGet(wp, "position", Null)
     IN /\ IsDict(pos) /\ HasKey(pos, "latitude") /\ HasKey(pos, "longitude")
        /\ DictGet(pos, "latitude", Null).t = "num"
        /\ DictGet(pos, "longitude", Null).t = "num"

WellFormedRoute(r) ==
  IsList(r) /\ \A j \in 1..Len(r.items) : WellFormedWaypoint(r.items[j])

Returned(op) == ret.op = op /\ ret.exc = "none"

(***************************************************************************)
(* Claims.                                                                 *)
(***************************************************************************)
\* C1: for a document with k events, the extracted safe routes, own-ship
\* snapshots and target ships each have k entries, entry i being the one of
\* event i (null when the event has no route or no own ship).
C1_PerEventEntries ==
  self.constructed =>
    \A which \in {"sils", "isils"} :
      LET events == EventsOf(DocOf(which))
          k == Len(events)
      IN /\ Len(SafePathsOf(which).items) = k
         /\ Len(OwnShipsOf(which).items) = k
         /\ Len(TargetShipsOf(which).items) = k
         /\ \A i \in 1..k :
              /\ SafePathsOf(which).items[i] = RouteOfEvent(events[i])
              /\ OwnShipsOf(which).items[i] = OwnShipOfEvent(events[i])

\* C2: the result with route_index i compares the safe route of SILS event i
\* with the safe route of ISILS event i.
C2_SameEventPaired ==
  Returned("compare_routes") =>
    \A r \in 1..Len(ret.value) :
      LET i == ret.value[r].route_index
          sils_events == EventsOf(sils_json_data)
          isils_events == EventsOf(isils_json_data)
      IN /\ i < Len(sils_events)
         /\ i < Len(isils_events)
         /\ RouteOfEvent(sils_events[i + 1]) = self.sils_safe_paths.items[r]
         /\ RouteOfEvent(isils_events[i + 1]) = self.isils_safe_paths.items[r]

\* C3: the extracted caPathGenFail list is the sub-sequence of the non-null
\* caPathGenFail values of the events, whatever their isNearTarget is.
C3_PathGenFlags ==
  self.constructed =>
    \A which \in {"sils", "isils"} :
      PathGensOf(which).items = NonNullFlags(EventsOf(DocOf(which)))

\* C4: compare_routes returns n = min(number of SILS routes, number of ISILS
\* routes) results with route_index 0..n-1 in order; the routes at indices
\* >= n of the longer side cause no result and no error.
C4_ResultCount ==
  ret.op = "compare_routes" =>
    LET n == Min(Len(self.sils_safe_paths.items), Len(self.isils_safe_paths.items))
    IN /\ (\A i \in 1..n : /\ WellFormedRoute(self.sils_safe_paths.items[i])
                           /\ WellFormedRoute(self.isils_safe_paths.items[i]))
            => ret.exc = "none"
       /\ ret.exc = "none" =>
            /\ Len(ret.value) = n
            /\ \A i \in 1..n : ret.value[i].route_index = i - 1

\* C4 witness: one side has more routes, one of the extra ones is not even a
\* list of waypoints, and compare_routes returned a result for the others.
C4_Witness ==
  /\ Returned("compare_routes")
  /\ Len(ret.value) >= 1
  /\ Len(self.isils_safe_paths.items) > Len(self.sils_safe_paths.items)
  /\ \E i \in 1..Len(self.isils_safe_paths.items) :
       /\ i > Len(self.sils_safe_paths.items)
       /\ ~WellFormedRoute(self.isils_safe_paths.items[i])

\* C5: max_error_m and sum_error_m of a result are the maximum and the sum
\* of the distances of the waypoint pairs 0..m-1, m the smaller waypoint
\* count, and both are 0 when m = 0.
C5_ErrorsOverCommonPrefix ==
  Returned("compare_routes") =>
    \A r \in 1..Len(ret.value) :
      LET d == PairDistances(self.sils_safe_paths.items[r], self.isils_safe_paths.items[r])
      IN /\ ret.value[r].max_error_m = SeqMax(d)
         /\ ret.value[r].sum_error_m = SeqSum(d)
         /\ d = <<>> => ret.value[r].max_error_m = 0 /\ ret.value[r].sum_error_m = 0

\* C5 witness: a SILS route of three waypoints against an ISILS route of two,
\* the two compared pairs at different distances, the first the larger.
C5_Witness ==
  /\ Returned("compare_routes")
  /\ Len(ret.value) = 1
  /\ ret.value[1].waypoint_count_sils = 3
  /\ ret.value[1].waypoint_count_isils = 2
  /\ LET d == PairDistances(self.sils_safe_paths.items[1], self.isils_safe_paths.items[1])
     IN d[1] > d[2] /\ d[2] > 0
  /\ ret.value[1].max_error_m < ret.value[1].sum_error_m

\* C6: when the two routes of every compared index are the same waypoints,
\* every result has max_error_m = 0 and sum_error_m = 0.
C6_IdenticalRoutesNoError ==
  (/\ Returned("compare_routes")
   /\ \A r \in 1..Len(ret.value) :
        self.sils_safe_paths.items[r] = self.isils_safe_paths.items[r])
    => \A r \in 1..Len(ret.value) :
         ret.value[r].max_error_m = 0 /\ ret.value[r].sum_error_m = 0

\* C6 witness: identical routes of at least two waypoints away from the
\* origin were compared.
C6_Witness ==
  /\ Returned("compare_routes")
  /\ Len(ret.value) >= 1
  /\ \A r \in 1..Len(ret.value) :
       self.sils_safe_paths.items[r] = self.isils_safe_paths.items[r]
  /\ ret.value[1].waypoint_count_sils >= 2
  /\ Lat(self.sils_safe_paths.items[1].items[1]) = 1

\* C7: compare_ownship returns a distance or null and never ends in an error.
C7_CompareOwnshipReturns ==
  ret.op = "compare_ownship" => ret.exc = "none"

\* C8: get_safe_path(safe_paths, idx) is safe_paths[j] for the greatest
\* j <= idx with j < len(safe_paths) and safe_paths[j] non-empty, and null
\* when there is no such j.
C8_LatestNonEmptyRoute ==
  ret.op = "get_safe_path" =>
    LET sp == SafePathsOf(ret.which).items
        J == {j \in 0..ret.idx : j < Len(sp) /\ Truthy(sp[j + 1])}
    IN IF J = {} THEN ret.value = Null
       ELSE ret.value = sp[(CHOOSE j \in J : \A k \in J : k <= j) + 1]

\* C8 witness: a lookup beyond the end of [routeA, empty] fell back to routeA.
C8_Witness ==
  /\ ret.op = "get_safe_path"
  /\ LET sp == SafePathsOf(ret.which).items
     IN /\ Len(sp) = 2
        /\ ret.idx = 2
        /\ Truthy(sp[1])
        /\ ~Truthy(sp[2])
        /\ ret.value = sp[1]

\* C9: with fewer than two non-null caPathGenFail flags among the events the
\* outcome is NA when there is none or the only one is true, and Success when
\* the only one is false.
C9_FewFlagsOutcome ==
  ret.op = "classify" =>
    LET flags == NonNullFlags(EventsOf(DocOf(ret.which)))
    IN Len(flags) < 2 =>
         ret.value = IF Len(flags) = 0 THEN "NA"
                     ELSE IF flags[1] = Bool(TRUE) THEN "NA" ELSE "Success"

\* C10: with two or more non-null caPathGenFail flags among the events the
\* outcome is Success when all of them are false and Fail otherwise.
C10_ManyFlagsOutcome ==
  ret.op = "classify" =>
    LET flags == NonNullFlags(EventsOf(DocOf(ret.which)))
    IN Len(flags) >= 2 =>
         ret.value = IF \A i \in 1..Len(flags) : flags[i] = Bool(FALSE) THEN "Success"
                     ELSE "Fail"


(***************************************************************************)
(* safe_get and flatten called on their own, on one value.                 *)
(***************************************************************************)
MaxDepth == 2

AccessorKeys == {"x", "a"}
AccessorLeaves ==
  {Null, Num(0), Num(1), Bool(FALSE), Str("ab", 2), EmptyList, EmptyMap}

\* Mappings of one key nested up to d deep around a leaf.
RECURSIVE NestedMaps(_)
NestedMaps(d) ==
  IF d = 0 THEN AccessorLeaves
  ELSE AccessorLeaves \cup
       {Obj(<< <<k, v>> >>) : k \in AccessorKeys, v \in NestedMaps(d - 1)}

\* Lists of up to two items nested up to d deep around a leaf.
ListLeaves == {Num(1), Obj(<< <<"a", Num(1)>> >>)}
RECURSIVE NestedLists(_)
NestedLists(d) ==
  IF d = 0 THEN ListLeaves
  ELSE ListLeaves \cup {EmptyList}
       \cup {List(<<v>>) : v \in NestedLists(d - 1)}
       \cup {List(<<v, w>>) : v \in NestedLists(d - 1), w \in NestedLists(d - 1)}

AccessorDefaults ==
  {Null, EmptyList, EmptyMap, Num(0), Bool(FALSE), Obj(<< <<"a", Num(1)>> >>)}

InitAccessor ==
  /\ sils_json_data \in NestedMaps(MaxDepth) \cup NestedLists(MaxDepth)
  /\ isils_json_data = Null
  /\ self = NoObject
  /\ ret = NoCall
  /\ io = NoIo
  /\ batch = NoBatch

\* safe_get(sils_json_data, keys, default)
SafeGet ==
  /\ ret = NoCall
  /\ \E keys \in SeqUpTo(AccessorKeys, MaxDepth), default \in AccessorDefaults :
       ret' = [op |-> "safe_get", keys |-> keys, default |-> default,
               value |-> safe_get(sils_json_data, keys, default)]
  /\ UNCHANGED <<sils_json_data, isils_json_data, self, io, batch>>

\* flatten(sils_json_data)
Flatten ==
  /\ ret = NoCall
  /\ ret' = [op |-> "flatten", value |-> flatten(sils_json_data)]
  /\ UNCHANGED <<sils_json_data, isils_json_data, self, io, batch>>

NextAccessor ==
  \/ SafeGet
  \/ Flatten

SpecAccessor == InitAccessor /\ [][NextAccessor]_vars

\* The walk down a key path: whether every step finds a mapping holding the
\* key, and the value at the end of the path.
RECURSIVE Resolve(_, _)
Resolve(data, keys) ==
  IF keys = <<>> THEN [found |-> TRUE, value |-> data]
  ELSE IF IsDict(data) /\ HasKey(data, Head(keys))
    THEN Resolve(DictGet(data, Head(keys), Null), Tail(keys))
    ELSE [found |-> FALSE, value |-> Null]

\* The leaves of a value from left to right.
RECURSIVE LeavesOf(_)
LeavesOf(x) ==
  IF ~IsList(x) THEN <<x>>
  ELSE IF x.items = <<>> THEN <<>>
  ELSE LeavesOf(Head(x.items)) \o LeavesOf(List(Tail(x.items)))

\* C11: safe_get returns the default for every key path on which some step
\* meets a non-mapping or an absent key, and the value stored at the end of
\* the path when every step finds a mapping holding the key.
C11_SafeGetContract ==
  ret.op = "safe_get" =>
    LET r == Resolve(sils_json_data, ret.keys)
    IN PyEq(ret.value, IF r.found THEN r.value ELSE ret.default)

\* C12: flatten is idempotent; its result holds no list and keeps the
\* leaves of its input in left-to-right order.
C12_FlattenIdempotent ==
  ret.op = "flatten" =>
    /\ flatten(ret.value) = ret.value
    /\ \A i \in 1..Len(ret.value.items) : ~IsList(ret.value.items[i])
    /\ ret.value.items = LeavesOf(sils_json_data)

C12_Witness ==
  /\ ret.op = "flatten"
  /\ IsList(sils_json_data)
  /\ \E i \in 1..Len(sils_json_data.items) :
       /\ IsList(sils_json_data.items[i])
       /\ sils_json_data.items[i].items # <<>>
  /\ Len(ret.value.items) >= 2


\* Whether an event stores a value under a two-key path.
HasField2(event, k1, k2) ==
  IsDict(event) /\ HasKey(event, k1) /\ IsDict(DictGet(event, k1, Null))
    /\ HasKey(DictGet(event, k1, Null), k2)

\* C13: for every event of a list-valued eventData the target_ships entry is
\* a flat sequence: a single mapping becomes a one-element sequence holding
\* it, a nested list the sequence of its leaves, an absent value the empty
\* sequence.
C13_TargetShipsFlat ==
  self.constructed =>
    \A which \in {"sils", "isils"} :
      LET events == EventsOf(DocOf(which))
          out == TargetShipsOf(which).items
      IN /\ Len(out) = Len(events)
         /\ \A i \in 1..Len(out) :
              LET raw == Field2(events[i], "timeSeriesData", "targetShips")
                  has == HasField2(events[i], "timeSeriesData", "targetShips")
              IN /\ IsList(out[i])
                 /\ \A j \in 1..Len(out[i].items) : ~IsList(out[i].items[j])
                 /\ ~has => out[i] = EmptyList
                 /\ has /\ IsDict(raw) => out[i] = List(<<raw>>)
                 /\ has /\ IsList(raw) => out[i].items = LeavesOf(raw)

C13_Witness ==
  /\ self.constructed
  /\ LET events == EventsOf(sils_json_data)
     IN /\ Len(events) = 2
        /\ IsDict(Field2(events[1], "timeSeriesData", "targetShips"))
        /\ LET raw == Field2(events[2], "timeSeriesData", "targetShips")
           IN IsList(raw) /\ \E j \in 1..Len(raw.items) : IsList(raw.items[j])
        /\ Len(self.sils_target_ships_event_info.items[2].items) = 2


(***************************************************************************)
(* Construction and plot_all on documents that lack fields or hold values  *)
(* of another type: a failed load (None), a document that is not a         *)
(* mapping, null or a wrong type at a step of the fixed paths, events that *)
(* are not mappings.                                                       *)
(***************************************************************************)
OwnShipValues ==
  {Null, Num(7), EmptyMap,
   Obj(<< <<"static", Null>> >>),
   Obj(<< <<"waypoints", Null>> >>),
   Obj(<< <<"waypoints", Num(7)>> >>),
   Obj(<< <<"waypoints", EmptyList>> >>),
   Obj(<< <<"waypoints", Route(<<P0, P1>>)>>, <<"static", Obj(<< <<"length", Num(1)>> >>)>> >>)}

TrafficValues ==
  {Null, EmptyList, EmptyMap} \cup {Obj(<< <<"ownShip", o>> >>) : o \in OwnShipValues}

\* Events of a list-valued eventData, some of them not mappings.
OddEvents == {Null, Num(7), Event(Route(<<P0>>), ShipState(P0), Absent, Bool(TRUE), Bool(FALSE))}

EventDataValues ==
  {Null, Num(7), Str("ab", 2), Obj(<< <<"a", Num(1)>> >>), EmptyMap}
    \cup {List(es) : es \in SeqUpTo(OddEvents, MaxEvents)}

CagaValues ==
  {Null, EmptyMap} \cup {Obj(<< <<"eventData", ed>> >>) : ed \in EventDataValues}

OddDocs ==
  {Null, Num(7), EmptyMap}
    \cup {Obj(<< <<"trafficSituation", ts>> >>) : ts \in TrafficValues}
    \cup {Obj(<< <<"cagaData", cd>> >>) : cd \in CagaValues}

InitDegraded ==
  /\ sils_json_data \in OddDocs
  /\ isils_json_data \in OddDocs
  /\ self = NoObject
  /\ ret = NoCall
  /\ io = NoIo
  /\ batch = NoBatch

NextDegraded ==
  \/ Construct
  \/ PlotAll

SpecDegraded == InitDegraded /\ [][NextDegraded]_vars

\* The value stored at a key path and whether the path exists.
BaseRouteRaw == Resolve(sils_json_data, <<"trafficSituation", "ownShip", "waypoints">>)
EventDataRaw(which) == Resolve(DocOf(which), <<"cagaData", "eventData">>)

\* C14: for every input document the extracted base_route is a sequence and
\* never null, and it is the empty sequence whenever no waypoint sequence is
\* stored at trafficSituation.ownShip.waypoints.
C14_BaseRouteSequence ==
  self.constructed =>
    /\ IsList(self.base_route)
    /\ ~(BaseRouteRaw.found /\ IsList(BaseRouteRaw.value)) => self.base_route = EmptyList

EventDataOf(which) ==
  IF which = "sils" THEN self.sils_event_data ELSE self.isils_event_data

\* C15: when cagaData.eventData is present but is a mapping, a string or a
\* number, the dataset has zero events everywhere: every per-event sequence
\* is empty, the stored event data counts as empty, and plot_all counts zero
\* events for that dataset.
C15_NonSequenceEventData ==
  \A which \in {"sils", "isils"} :
    (/\ self.constructed
     /\ EventDataRaw(which).found
     /\ EventDataRaw(which).value.t \in {"map", "str", "num"})
    => /\ SafePathsOf(which) = EmptyList
       /\ OwnShipsOf(which) = EmptyList
       /\ TargetShipsOf(which) = EmptyList
       /\ PathGensOf(which) = EmptyList
       /\ HasLen(EventDataOf(which)) /\ PyLen(EventDataOf(which)) = 0
       /\ ret.op = "plot_all" =>
            /\ ret.exc = "none"
            /\ (IF which = "sils" THEN ret.sils_event_count ELSE ret.isils_event_count) = 0

OwnShipInfoOf(which) ==
  IF which = "sils" THEN self.sils_own_ship_info ELSE self.isils_own_ship_info

\* C16: constructing a RouteExtractor never raises, and every missing or
\* mismatched field degrades to its default: the base route and the event
\* data are sequences or null, the static own-ship information a mapping or
\* null.
C16_FieldsDegrade ==
  self.constructed =>
    /\ IsList(self.base_route) \/ self.base_route = Null
    /\ \A which \in {"sils", "isils"} :
         /\ IsList(EventDataOf(which)) \/ EventDataOf(which) = Null
         /\ IsDict(OwnShipInfoOf(which)) \/ OwnShipInfoOf(which) = Null


(***************************************************************************)
(* targets_from_marzip.py                                                  *)
(*                                                                         *)
(* A file is described by what the calls can observe of it:                *)
(*   is_zip    zipfile.is_zipfile(path)                                    *)
(*   members   the archive's entries: the suffix of the name, whether the  *)
(*             entry decodes, and the document a .json entry decodes to    *)
(*   readable, json   whether open + json.load of the path succeed, and    *)
(*             the document they give                                      *)
(*   scratch   whether the directory the archive is unpacked into exists   *)
(***************************************************************************)
MaxMembers == 2

Member(suffix, ok, doc) == [suffix |-> suffix, ok |-> ok, doc |-> doc]

\* The rows of the readable entries with a given suffix, as entry positions.
RECURSIVE Rows(_, _, _)
Rows(members, suffix, k) ==
  IF k > Len(members) THEN <<>>
  ELSE (IF members[k].suffix = suffix /\ members[k].ok THEN <<Num(k)>> ELSE <<>>)
       \o Rows(members, suffix, k + 1)

\* self.simulation_result after the loop: the last .json entry that decodes.
RECURSIVE SimulationResult(_, _)
SimulationResult(members, current) ==
  IF members = <<>> THEN current
  ELSE SimulationResult(Tail(members),
         IF Head(members).suffix = ".json" /\ Head(members).ok
           THEN Head(members).doc ELSE current)

Datasets(members) ==
  Obj(<< <<"timeseries_dataset", List(Rows(members, "timeseries.arrow", 1))>>,
         <<"static_dataset", List(Rows(members, "static.arrow", 1))>>,
         <<"simulation_result", SimulationResult(members, EmptyMap)>> >>)

\* extract_and_read_marzip on file f. unpack is how ZipFile(...).extractall
\* ends: "ok", "raised_before" any directory was made, "raised_after" the
\* scratch directory was made; rmtree_ok is whether shutil.rmtree succeeds.
\* extractall makes the directory with the first entry it writes.
extract_and_read_marzip(f, unpack, rmtree_ok) ==
  IF ~f.is_zip
    THEN [exc |-> "ValueError", value |-> Null, scratch |-> f.scratch]
  ELSE IF unpack = "raised_before"
    THEN [exc |-> "OSError", value |-> Null, scratch |-> f.scratch]
  ELSE IF unpack = "raised_after"
    THEN [exc |-> "OSError", value |-> Null, scratch |-> TRUE]
  ELSE LET extracted == f.scratch \/ f.members # <<>>
       IN [exc |-> "none", value |-> Datasets(f.members),
           scratch |-> IF extracted THEN ~rmtree_ok ELSE FALSE]

(***************************************************************************)
(* file_input_manager.py                                                   *)
(***************************************************************************)
\* load_marzip without its try/except.
load_marzip_uncaught(f, unpack, rmtree_ok) ==
  extract_and_read_marzip(f, unpack, rmtree_ok)

load_marzip(f, unpack, rmtree_ok) ==
  LET data == extract_and_read_marzip(f, unpack, rmtree_ok)
  IN IF data.exc # "none" THEN [exc |-> "none", value |-> Null, scratch |-> data.scratch]
     ELSE data

load_json(f) ==
  IF f.readable THEN [exc |-> "none", value |-> f.json, scratch |-> f.scratch]
  ELSE [exc |-> "none", value |-> Null, scratch |-> f.scratch]

\* A mode argument: None or a string.
NoMode == "None"

load_sils_data(f, mode, unpack, rmtree_ok) ==
  IF mode = NoMode THEN [exc |-> "none", value |-> Null, scratch |-> f.scratch]
  ELSE IF mode = "marzip"
    THEN LET data == load_marzip(f, unpack, rmtree_ok)
         IN [exc |-> "none",
             value |-> IF Truthy(data.value)
                         THEN DictGet(data.value, "simulation_result", Null) ELSE Null,
             scratch |-> data.scratch]
  ELSE IF mode = "json" THEN load_json(f)
  ELSE [exc |-> "ValueError", value |-> Null, scratch |-> f.scratch]

load_isils_data(f, mode, unpack, rmtree_ok) ==
  IF mode = NoMode THEN [exc |-> "none", value |-> Null, scratch |-> f.scratch]
  ELSE IF mode = "json" THEN load_json(f)
  ELSE IF mode = "marzip"
    THEN LET data == load_marzip(f, unpack, rmtree_ok)
         IN [exc |-> "none",
             value |-> IF Truthy(data.value)
                         THEN DictGet(data.value, "isils_result", Null) ELSE Null,
             scratch |-> data.scratch]
  ELSE [exc |-> "ValueError", value |-> Null, scratch |-> f.scratch]

\* get_files(folder, extension) on a folder given by whether it exists and
\* the names in it.
get_files(exists, names, extension) ==
  IF ~exists THEN [exc |-> "FileNotFoundError", value |-> Null]
  ELSE [exc |-> "none", value |-> SelectSeq(names, LAMBDA n : n.ext = extension)]

\* get_sils_files and get_isils_files differ only in the folder they list.
get_sils_files(exists, names, mode) ==
  IF mode = NoMode THEN [exc |-> "none", value |-> <<>>]
  ELSE get_files(exists, names, IF mode = "marzip" THEN ".marzip" ELSE ".json")

get_isils_files(exists, names, mode) ==
  IF mode = NoMode THEN [exc |-> "none", value |-> <<>>]
  ELSE get_files(exists, names, IF mode = "marzip" THEN ".marzip" ELSE ".json")

(***************************************************************************)
(* The file operations called on one file.                                 *)
(***************************************************************************)
DocA == Doc(<<>>)
DocB == Doc(<<Event(Route(<<P0>>), Absent, Absent, Absent, Absent)>>)

Members ==
  {Member(sfx, ok, Null) : sfx \in {"timeseries.arrow", "static.arrow"}, ok \in BOOLEAN}
    \cup {Member(".json", TRUE, d) : d \in {DocA, DocB}}
    \cup {Member(".json", FALSE, Null), Member(".txt", TRUE, Null)}

\* A zip archive (which does not parse as JSON), a JSON file, or a file that
\* is neither or does not exist.
Files ==
  {[is_zip |-> TRUE, members |-> ms, json |-> Null, readable |-> FALSE, scratch |-> FALSE] :
     ms \in SeqUpTo(Members, MaxMembers)}
    \cup {[is_zip |-> FALSE, members |-> <<>>, json |-> d, readable |-> TRUE, scratch |-> FALSE] :
            d \in {DocA, DocB}}
    \cup {[is_zip |-> FALSE, members |-> <<>>, json |-> Null, readable |-> FALSE,
           scratch |-> FALSE]}

Modes == {NoMode, "marzip", "json", "xml"}
Unpacks(f) == {"ok", "raised_before"} \cup (IF f.members # <<>> THEN {"raised_after"} ELSE {})
FolderNames == <<[base |-> "scen_1", ext |-> ".marzip"], [base |-> "scen_1", ext |-> ".json"]>>

InitFiles ==
  /\ sils_json_data = Null
  /\ isils_json_data = Null
  /\ self = NoObject
  /\ ret = NoCall
  /\ io \in Files
  /\ batch = NoBatch

\* A call on the file: its outcome, and the scratch directory it leaves.
FileCall(op, mode, unpack, rmtree_ok, out) ==
  /\ ret' = [op |-> op, mode |-> mode, unpack |-> unpack, rmtree_ok |-> rmtree_ok,
             exc |-> out.exc, value |-> out.value]
  /\ io' = [io EXCEPT !.scratch = out.scratch]
  /\ UNCHANGED <<sils_json_data, isils_json_data, self, batch>>

ExtractAndReadMarzip ==
  /\ ret = NoCall
  /\ \E unpack \in Unpacks(io), rmtree_ok \in BOOLEAN :
       FileCall("extract_and_read_marzip", NoMode, unpack, rmtree_ok,
                extract_and_read_marzip(io, unpack, rmtree_ok))

LoadMarzip ==
  /\ ret = NoCall
  /\ \E unpack \in Unpacks(io), rmtree_ok \in BOOLEAN :
       FileCall("load_marzip", NoMode, unpack, rmtree_ok, load_marzip(io, unpack, rmtree_ok))

LoadSilsData ==
  /\ ret = NoCall
  /\ \E mode \in Modes, unpack \in Unpacks(io), rmtree_ok \in BOOLEAN :
       FileCall("load_sils_data", mode, unpack, rmtree_ok,
                load_sils_data(io, mode, unpack, rmtree_ok))

LoadIsilsData ==
  /\ ret = NoCall
  /\ \E mode \in Modes, unpack \in Unpacks(io), rmtree_ok \in BOOLEAN :
       FileCall("load_isils_data", mode, unpack, rmtree_ok,
                load_isils_data(io, mode, unpack, rmtree_ok))

GetSilsFiles ==
  /\ ret = NoCall
  /\ \E mode \in Modes, exists \in BOOLEAN :
       ret' = [op |-> "get_sils_files", mode |-> mode, exists |-> exists]
              @@ get_sils_files(exists, FolderNames, mode)
  /\ UNCHANGED <<sils_json_data, isils_json_data, self, io, batch>>

GetIsilsFiles ==
  /\ ret = NoCall
  /\ \E mode \in Modes, exists \in BOOLEAN :
       ret' = [op |-> "get_isils_files", mode |-> mode, exists |-> exists]
              @@ get_isils_files(exists, FolderNames, mode)
  /\ UNCHANGED <<sils_json_data, isils_json_data, self, io, batch>>

NextFiles ==
  \/ ExtractAndReadMarzip
  \/ LoadMarzip
  \/ LoadSilsData
  \/ LoadIsilsData
  \/ GetSilsFiles
  \/ GetIsilsFiles

SpecFiles == InitFiles /\ [][NextFiles]_vars


\* C17: on every exit path of extract_and_read_marzip, returning or raising,
\* the scratch directory it created no longer exists when the call ends
\* (stated here for the calls in which removing the directory can succeed).
C17_ScratchRemoved ==
  (ret.op = "extract_and_read_marzip" /\ ret.rmtree_ok) => ~io.scratch

\* C18: on a path that is not a valid zip archive extract_and_read_marzip
\* fails with an error, creates no scratch directory and returns no
\* datasets; load_marzip turns the failure into "no data" for that file.
C18_InvalidArchive ==
  ~io.is_zip =>
    /\ ret.op = "extract_and_read_marzip" =>
         ret.exc = "ValueError" /\ ret.value = Null /\ ~io.scratch
    /\ ret.op = "load_marzip" =>
         ret.exc = "none" /\ ret.value = Null /\ ~io.scratch

C18_Witness ==
  /\ ~io.is_zip
  /\ ret.op = "load_marzip"
  /\ ret.value = Null

ModeOps == {"load_sils_data", "load_isils_data", "get_sils_files", "get_isils_files"}

\* C19: every operation that takes a mode string fails with a ValueError
\* when the mode is a string other than "marzip" or "json".
C19_InvalidMode ==
  (ret.op \in ModeOps /\ ret.mode \notin {NoMode, "marzip", "json"}) =>
    ret.exc = "ValueError"

\* The .json entries of an archive that decode to a document.
EmbeddedDocs(f) ==
  {f.members[k].doc : k \in {j \in 1..Len(f.members) :
                               f.members[j].suffix = ".json" /\ f.members[j].ok}}

\* C20: load_isils_data(path, mode="marzip") on a valid archive that embeds
\* a result document returns that document, as load_sils_data does for the
\* same archive, and returns null only when the archive cannot be read.
C20_IsilsFromArchive ==
  (ret.op = "load_isils_data" /\ ret.mode = "marzip"
     /\ io.is_zip /\ ret.unpack = "ok" /\ EmbeddedDocs(io) # {}) =>
    /\ ret.value \in EmbeddedDocs(io)
    /\ ret.value = load_sils_data([io EXCEPT !.scratch = FALSE], "marzip",
                                  ret.unpack, ret.rmtree_ok).value


\* The latest event j <= idx of a document whose safe route is non-empty, as
\* a position in the event list; 0 when there is none.
RECURSIVE LatestRouteEvent(_, _)
LatestRouteEvent(events, idx) ==
  IF idx < 0 THEN 0
  ELSE IF idx < Len(events) /\ Truthy(RouteOfEvent(events[idx + 1])) THEN idx + 1
  ELSE LatestRouteEvent(events, idx - 1)

\* C23: in plot_all the SILS safe path drawn for event index idx is the route
\* of the latest event j <= idx whose safe route is non-empty, never the
\* route of a later event, also when some events have no route at all.
C23_SilsLookbackByEvent ==
  (ret.op = "plot_all" /\ ret.option \in {"both", "sils"}) =>
    \A k \in 1..Len(ret.drawn) :
      LET events == EventsOf(sils_json_data)
          j == LatestRouteEvent(events, k - 1)
      IN ret.drawn[k].sils = IF j = 0 THEN Null ELSE RouteOfEvent(events[j])

\* C24: in plot_all with option "both" the lookback is applied to ISILS
\* exactly as to SILS: for every event index the routes drawn are
\* get_safe_path(isils_safe_paths, idx) and get_safe_path(sils_safe_paths,
\* idx), also for idx at or beyond the number of routes of that dataset.
C24_IsilsLookbackAsSils ==
  (ret.op = "plot_all" /\ ret.option = "both") =>
    \A k \in 1..Len(ret.drawn) :
      /\ ret.drawn[k].sils = get_safe_path(self.sils_safe_paths, k - 1)
      /\ ret.drawn[k].isils = get_safe_path(self.isils_safe_paths, k - 1)


\* C25: compare_routes completes without raising for every pair of datasets
\* produced by extraction, including routes that are not sequences and
\* waypoints that lack position, latitude or longitude.
C25_CompareRoutesNeverRaises ==
  ret.op = "compare_routes" => ret.exc = "none"

\* C26: every result of compare_routes has 0 <= max_error_m <= sum_error_m,
\* max_error_m = 0 exactly when sum_error_m = 0, and reports as waypoint
\* counts the full lengths of the two routes, not the compared count.
C26_ErrorBoundsAndCounts ==
  Returned("compare_routes") =>
    \A k \in 1..Len(ret.value) :
      LET row == ret.value[k]
      IN /\ 0 <= row.max_error_m
         /\ row.max_error_m <= row.sum_error_m
         /\ (row.max_error_m = 0) <=> (row.sum_error_m = 0)
         /\ row.waypoint_count_sils = PyLen(self.sils_safe_paths.items[k])
         /\ row.waypoint_count_isils = PyLen(self.isils_safe_paths.items[k])

C26_Witness ==
  /\ Returned("compare_routes")
  /\ \E k \in 1..Len(ret.value) :
       /\ ret.value[k].waypoint_count_sils > ret.value[k].waypoint_count_isils
       /\ ret.value[k].waypoint_count_isils >= 2
       /\ 0 < ret.value[k].max_error_m
       /\ ret.value[k].max_error_m < ret.value[k].sum_error_m


(***************************************************************************)
(* The batch drivers: the __main__ loops of route_result_analyzer.py,      *)
(* route_plotter.py and targets_from_marzip.py, and process_all_files of   *)
(* maritimeschema_analyzer.py. A batch entry is a file of the input folder *)
(* (its extension and what the calls observe of it) together with the      *)
(* ISILS file of the same base name, which may not exist.                  *)
(*                                                                         *)
(* The outcome of one loop iteration:                                      *)
(*   kind         "ignored" (not a file of this driver), "skipped"         *)
(*                (continue), "processed", "failed" (an exception the loop *)
(*                catches), "raised" (an exception that leaves the loop)   *)
(*   step         where the exception came from                            *)
(*   constructed  whether a comparer or plotter was constructed            *)
(*   output       whether result rows, figures or a file were produced     *)
(***************************************************************************)
Outcome(kind, step, constructed, output) ==
  [kind |-> kind, step |-> step, constructed |-> constructed, output |-> output]

\* JSONLoader(json_file=...).load(), imported from route_extracter but not
\* defined there: the plain-JSON loader of the data flow, which gives the
\* document stored in the file.
JSONLoaderLoad(f) == f.json

\* One iteration of the loop of route_result_analyzer.py.
AnalyzerFile(sc, unpack, rmtree_ok) ==
  IF sc.ext # ".marzip" THEN Outcome("ignored", "none", FALSE, FALSE)
  ELSE IF ~sc.isils.exists THEN Outcome("skipped", "none", FALSE, FALSE)
  ELSE LET marzip_data == extract_and_read_marzip(sc.file, unpack, rmtree_ok)
       IN IF marzip_data.exc # "none"
            THEN Outcome("raised", "extract_and_read_marzip", FALSE, FALSE)
          ELSE LET sils == DictGet(marzip_data.value, "simulation_result", Null)
                   isils == JSONLoaderLoad(sc.isils)
                   comparer == RouteExtractorInit(sils, isils)
               IN IF compare_routes(comparer).exc # "none"
                    THEN Outcome("raised", "compare_routes", TRUE, FALSE)
                  ELSE IF compare_ownship(comparer).exc # "none"
                    THEN Outcome("raised", "compare_ownship", TRUE, FALSE)
                  ELSE Outcome("processed", "none", TRUE, TRUE)

\* One iteration of the loop of route_plotter.py, with the options set there:
\* sils_mode "marzip", isils_mode "json", plot "sils".
PlotterFile(sc, unpack, rmtree_ok) ==
  IF sc.ext # ".marzip" THEN Outcome("ignored", "none", FALSE, FALSE)
  ELSE LET sils_data == load_sils_data(sc.file, "marzip", unpack, rmtree_ok).value
           isils_data == load_isils_data(sc.isils, "json", unpack, rmtree_ok).value
       IN IF sils_data = Null /\ isils_data = Null
            THEN Outcome("skipped", "none", FALSE, FALSE)
          ELSE LET plotted == plot_all(RouteExtractorInit(sils_data, isils_data), "sils")
               IN IF plotted.exc # "none"
                    THEN Outcome("raised", "plot_all", TRUE, plotted.saved > 0)
                    ELSE Outcome("processed", "none", TRUE, plotted.saved > 0)

\* The exception extract_event_summary raises on a loaded document, "none"
\* when it returns: every .get is called on the value without a type test.
SummaryEventExc(event) ==
  IF ~IsDict(event) THEN "AttributeError"
  ELSE IF ~IsDict(DictGet(event, "safe_path_info", EmptyMap)) THEN "AttributeError"
  ELSE "none"

extract_event_summary(data) ==
  IF ~IsDict(data) THEN "AttributeError"
  ELSE IF ~IsDict(DictGet(data, "cagaData", EmptyMap)) THEN "AttributeError"
  ELSE LET event_data == DictGet(DictGet(data, "cagaData", EmptyMap), "eventData", EmptyList)
       IN CASE event_data.t = "list" ->
                 LET bad == SelectSeq([k \in 1..Len(event_data.items) |->
                                         SummaryEventExc(event_data.items[k])],
                                      LAMBDA x : x # "none")
                 IN IF bad = <<>> THEN "none" ELSE Head(bad)
            [] event_data.t \in {"map", "str"} ->
                 IF PyLen(event_data) = 0 THEN "none" ELSE "AttributeError"
            [] OTHER -> "TypeError"

\* One iteration of process_all_files: generate_summary, which catches only
\* the failure to open or to decode the file.
SummaryFile(sc) ==
  IF sc.ext # ".json" THEN Outcome("ignored", "none", FALSE, FALSE)
  ELSE IF ~sc.file.readable THEN Outcome("failed", "json.load", FALSE, FALSE)
  ELSE IF extract_event_summary(sc.file.json) # "none"
    THEN Outcome("raised", "extract_event_summary", FALSE, FALSE)
  ELSE Outcome("processed", "none", FALSE, TRUE)

\* The first .json entry that decodes, {} when there is none.
RECURSIVE FirstJson(_)
FirstJson(members) ==
  IF members = <<>> THEN EmptyMap
  ELSE IF Head(members).suffix = ".json" /\ Head(members).ok THEN Head(members).doc
  ELSE FirstJson(Tail(members))

\* One iteration of the loop of targets_from_marzip.py:
\* extract_and_save_simulation_result inside try/except.
MarzipFile(sc, unpack, write_ok) ==
  IF sc.ext # ".marzip" THEN Outcome("ignored", "none", FALSE, FALSE)
  ELSE IF ~sc.file.is_zip \/ unpack # "ok"
    THEN Outcome("failed", "extract_and_save_simulation_result", FALSE, FALSE)
  ELSE Outcome("processed", "none", FALSE, Truthy(FirstJson(sc.file.members)) /\ write_ok)

MaxFiles == 2

Archive(ms) ==
  [is_zip |-> TRUE, members |-> ms, json |-> Null, readable |-> FALSE, scratch |-> FALSE]
JsonFile(d) ==
  [is_zip |-> FALSE, members |-> <<>>, json |-> d, readable |-> TRUE, scratch |-> FALSE]
Unreadable ==
  [is_zip |-> FALSE, members |-> <<>>, json |-> Null, readable |-> FALSE, scratch |-> FALSE]

\* A document whose only safe route is not a list.
DocBadRoute == Doc(<<Event(Num(7), Absent, Absent, Absent, Absent)>>)

\* The ISILS file of the same base name.
IsilsMissing == [exists |-> FALSE] @@ Unreadable
IsilsFile == [exists |-> TRUE] @@ JsonFile(DocB)

BatchFiles ==
  {[ext |-> ".marzip", file |-> f, isils |-> i] :
     f \in {Archive(<<Member(".json", TRUE, DocB)>>),
            Archive(<<Member(".json", TRUE, DocBadRoute)>>),
            Unreadable},
     i \in {IsilsMissing, IsilsFile}}
    \cup {[ext |-> ".json", file |-> f, isils |-> IsilsMissing] :
            f \in {JsonFile(DocB), JsonFile(EmptyList), Unreadable}}

Drivers == {"analyzer", "plotter", "summary", "marzip"}

InitBatch ==
  /\ sils_json_data = Null
  /\ isils_json_data = Null
  /\ self = NoObject
  /\ ret = NoCall
  /\ io = NoIo
  /\ \E d \in Drivers, fs \in SeqUpTo(BatchFiles, MaxFiles) :
       batch = [driver |-> d, files |-> fs, outcomes |-> <<>>, state |-> "running"]

\* The file the loop of the running driver is at.
BatchRunning(d) ==
  /\ batch.driver = d
  /\ batch.state = "running"
  /\ Len(batch.outcomes) < Len(batch.files)

CurrentFile == batch.files[Len(batch.outcomes) + 1]

\* The loop records the outcome and goes on, or the exception leaves it.
BatchStep(out) ==
  /\ batch' = [batch EXCEPT !.outcomes = Append(@, out),
                            !.state = IF out.kind = "raised" THEN "aborted" ELSE @]
  /\ UNCHANGED <<sils_json_data, isils_json_data, self, ret, io>>

AnalyzerStep ==
  /\ BatchRunning("analyzer")
  /\ \E unpack \in Unpacks(CurrentFile.file), rmtree_ok \in BOOLEAN :
       BatchStep(AnalyzerFile(CurrentFile, unpack, rmtree_ok))

PlotterStep ==
  /\ BatchRunning("plotter")
  /\ \E unpack \in Unpacks(CurrentFile.file), rmtree_ok \in BOOLEAN :
       BatchStep(PlotterFile(CurrentFile, unpack, rmtree_ok))

SummaryStep ==
  /\ BatchRunning("summary")
  /\ BatchStep(SummaryFile(CurrentFile))

MarzipStep ==
  /\ BatchRunning("marzip")
  /\ \E unpack \in Unpacks(CurrentFile.file), write_ok \in BOOLEAN :
       BatchStep(MarzipFile(CurrentFile, unpack, write_ok))

\* The loop is over: the driver writes its results and ends.
BatchEnd ==
  /\ batch.state = "running"
  /\ Len(batch.outcomes) = Len(batch.files)
  /\ batch' = [batch EXCEPT !.state = "done"]
  /\ UNCHANGED <<sils_json_data, isils_json_data, self, ret, io>>

NextBatch ==
  \/ AnalyzerStep
  \/ PlotterStep
  \/ SummaryStep
  \/ MarzipStep
  \/ BatchEnd

SpecBatch == InitBatch /\ [][NextBatch]_vars

\* C21: in every batch driver that pairs SILS with ISILS files, a SILS file
\* without an ISILS file of the same base name is skipped: no comparer or
\* plotter is constructed for it, no output is produced for it, and the
\* batch goes on to the next file.
C21_UnpairedSkipped ==
  batch.driver \in {"analyzer", "plotter"} =>
    \A k \in 1..Len(batch.outcomes) :
      (batch.files[k].ext = ".marzip" /\ ~batch.files[k].isils.exists) =>
        /\ batch.outcomes[k].kind = "skipped"
        /\ ~batch.outcomes[k].constructed
        /\ ~batch.outcomes[k].output

\* C22: in every batch loop a failure while processing one file (invalid
\* archive, unreadable or malformed document) is confined to that file: it
\* never ends the batch before the files that follow are processed.
C22_FailureConfined ==
  \A k \in 1..Len(batch.outcomes) :
    batch.outcomes[k].kind = "raised" => batch.outcomes[k].step = "compare_ownship"

====
